---- MODULE Spec2Model ----
(***************************************************************************)
(* State-machine model of the differentiable DFT code:                     *)
(*   - RKS (src/dqc/qccalc/rks.py): construction, run(), energy(), aodm()  *)
(*   - eigendecomp and the exact / Lanczos / Davidson eigen-solvers        *)
(*     (src/ddft/maths/eigpairs.py)                                        *)
(*   - OptimizationModule (src/ddft/modules/optimize.py)                   *)
(* Tensors are abstracted to small integers: a density matrix is an        *)
(* element of DM, a self-consistent parameter (Fock matrix) an element of  *)
(* SCP, an eigenvalue an element of Vals.  Widths of subspaces, loop       *)
(* indices, error kinds and the order of operations are kept exactly.      *)
(***************************************************************************)
EXTENDS Integers, Sequences, FiniteSets, TLC

VARIABLES
    \* ---- RKS object (rks.py) and its external collaborators ----
    system,        \* the Hamiltonian: [fock: DM -> SCP, diag: EigOpts -> [SCP -> DM]]
    h_terms,       \* the scalars the Hamiltonian / xc / system return to energy()
    has_run,       \* self.has_run
    has_dm,        \* whether attribute self._dm exists
    dm,            \* self._dm (meaningful when has_dm)
    eigen_options, \* self.eigen_options ("unset" before the first run)
    rks_pc,        \* "idle" | "solving"  (position inside run())
    arg_dm0,       \* dm0 argument of the run() in progress: <<>> (None) or <<d>>
    arg_eig,       \* eigen_options argument of the current/latest run()
    maxiter,       \* fwd_options["maxiter"] of the run() in progress
    f_tol,         \* tolerance of the nonlinear solver of the current/latest run()
    y,             \* current iterate of equilibrium() (scp); its result at return
    iter,          \* iterations done by equilibrium() in the run() in progress
    status,        \* outcome of the latest solve: "none" | "converged" | "maxiter"
    nruns,         \* number of completed run() calls
    prev_obs,      \* (outcome, exposed state) left by the run() before the latest one
    call,          \* last public call that finished: name, error, inputs it used
    e_tot,         \* value computed by the latest energy() (typed value)
    \* ---- eigendecomp.forward and the eigen-solvers (eigpairs.py) ----
    eg_in,         \* the arguments of the call: method, shape, neig, options, spectrum
    eg_pc,         \* "call" | "lanczos" | "lanczos_exit" | "davidson" | "davidson_exit" | "done"
    eg_solver,     \* the solver function that was entered ("none" if none)
    V_w,           \* number of columns of V
    eg_i,          \* loop variable: i of lanczos, m of davidson (next value)
    eigvalT,       \* eigenvalues of T of the latest iteration (<<>>: name unbound)
    prev_eigvals,  \* prev_eigvals (<<>>: None)
    stop_reason,   \* stop_reason
    napply,        \* number of applications of A to vectors so far
    niter,         \* number of loop iterations entered so far
    eg_err,        \* the exception that ended the call ("none" if none)
    eg_ret,        \* what the solver returned: eigenvalues, number and length of eigenvectors
    ctx_saved,     \* whether forward saved evals/evecs/params/A on ctx
    eg_at,         \* the loop iteration (value of niter) that assigned eigvalT
    ctx_graph,     \* ctx.evals / ctx.evecs and the autograd graph they carry
    eg_params,     \* params: their number, and what their .grad fields hold
    graph_alive,   \* whether the autograd graph of ctx.evals still has its buffers
    bw,            \* eigendecomp.backward: invocations, work done, results
    \* ---- OptimizationModule (optimize.py) ----
    op_in,         \* the module's configuration and the arguments of the call
    op_pc,         \* "call" | "stepping" | "evaluated" | "returned" | "backward" | "failed"
    op_opt,        \* the optimizer class constructed ("none" if none)
    op_steps,      \* number of opt.step(closure) calls made
    op_err,        \* the exception that ended the call ("none" if none)
    op_evals,      \* evaluations of the model: in closures, at (x*, y) untracked and
                   \* tracked; which one zopt is, and how many its graph holds
    op_bwd,        \* the backward pass: incoming gradients, and what it did
    op_x,          \* updates received by the caller's x0 and by the optimizer's x
    \* ---- _set_initial_v and the process-wide random generator ----
    iv_rng,        \* state of torch's default generator
    iv_args,       \* (vinit_type, nbatch, na, nguess) of the calls
    iv_first,      \* what the first call returned (<<>> before it)
    iv_last,       \* what the latest call returned (<<>> before the first)
    iv_calls,      \* number of calls made
    \* ---- EKS functionals (base_eks.py) and the periodic Hamiltonian ----
    cp_eks,        \* the functional: its tree of operands, _grid and _hmodel of its nodes
    cp_ham,        \* the Hamiltonian: df, grid, the is_*_set flags, the grids of its bases
    cp_call,       \* the latest call: what was asked, the state it found, its outcome
    \* ---- the preconditioner of davidson's residual correction ----
    pr_in,         \* dA, the Ritz values, nadd and eps_cond of one iteration
    pr_i,          \* index of the inner loop over the Ritz values
    pr_dA,         \* the tensor dA as it is now
    pr_finv,       \* the denominators of the latest pass
    pr_f,          \* the result of the latest division
    pr_err,        \* exception raised, "none" if none
    \* ---- CGTOBasis (cgto_basis.py) ----
    bs_db,         \* the basis files: per atomz the shells of its file, or no file
    bs_memory,     \* self.res_memory: per key <<>> or <<res>>
    bs_call        \* the latest loadbasis call and its outcome

rksvars == <<system, h_terms, has_run, has_dm, dm, eigen_options, rks_pc, arg_dm0,
             arg_eig, maxiter, f_tol, y, iter, status, nruns, prev_obs, call, e_tot>>

bwvars == <<eg_params, graph_alive, bw>>

egvars == <<eg_in, eg_pc, eg_solver, V_w, eg_i, eigvalT, prev_eigvals, stop_reason,
            napply, niter, eg_err, eg_ret, ctx_saved, eg_at, ctx_graph, bwvars>>

opvars == <<op_in, op_pc, op_opt, op_steps, op_err, op_evals, op_bwd, op_x>>

ivvars == <<iv_rng, iv_args, iv_first, iv_last, iv_calls>>

cpvars == <<cp_eks, cp_ham, cp_call>>

prvars == <<pr_in, pr_i, pr_dA, pr_finv, pr_f, pr_err>>

bsvars == <<bs_db, bs_memory, bs_call>>

auxvars == <<ivvars, cpvars, prvars, bsvars>>

vars == <<rksvars, egvars, opvars, auxvars>>

----------------------------------------------------------------------------
(* Bounds of the model *)
MaxScp == 1
MaxIter == 2
MaxTol == 2
MaxRuns == 2
MaxTerm == 1
MaxN == 3
MaxNiter == 4
MaxVal == 1
MaxNx == 1
MaxModelParams == 1
MaxOptIter == 2
MaxParams == 2
MaxGrad == 1
MaxBackward == 2
MaxRng == 2
MaxInitCalls == 2
MaxBatch == 2
MaxDepth == 1
MaxDen == 2
MaxEps == 2
MaxZ == 2
MaxGrids == 2

\* density matrices: 0 is the zero matrix, 1 a non-zero one
DM == {0, 1}
SCP == 0..MaxScp
EigOpts == {"{}", "custom"}
EigArgs == {"None", "custom"}
TermSet == [eivals_tot : 0..MaxTerm, exc : 0..MaxTerm, e_vxc : 0..MaxTerm,
            e_elrep : 0..MaxTerm, nuc : 0..MaxTerm]

Abs(x) == IF x < 0 THEN -x ELSE x

----------------------------------------------------------------------------
(* Typed values: torch scalars (per batch entry) and LinearOperators *)
Scalar(v) == [kind |-> "scalar", v |-> v]
LinOp == [kind |-> "linop", v |-> 0]
TypeErr == [kind |-> "TypeError", v |-> 0]
NoValue == [kind |-> "none", v |-> 0]

\* tensor + tensor; anything else is a TypeError that propagates
TAdd(a, b) ==
    IF a.kind = "scalar" /\ b.kind = "scalar" THEN Scalar(a.v + b.v) ELSE TypeErr

\* tensor - tensor; a LinearOperator operand is not a tensor
TSub(a, b) ==
    IF a.kind = "scalar" /\ b.kind = "scalar" THEN Scalar(a.v - b.v) ELSE TypeErr

----------------------------------------------------------------------------
(* RKS *)

AllSystems == [fock : [DM -> SCP], diag : [EigOpts -> [SCP -> DM]]]

\* systems whose Fock matrix is the density matrix itself and whose
\* diagonalization does not depend on the eigen options
PlainSystems ==
    {s \in AllSystems : /\ s.fock = [d \in DM |-> d]
                        /\ s.diag["{}"] = s.diag["custom"]}

UnitTerms == [eivals_tot |-> 1, exc |-> 1, e_vxc |-> 1, e_elrep |-> 1, nuc |-> 1]

\* rks.py:76-78  dm0 defaults to the zero matrix
EffDm0(dm0) == IF dm0 = <<>> THEN 0 ELSE dm0[1]

\* rks.py:61-62  eigen_options defaults to {}
EffEig(eo) == IF eo = "None" THEN "{}" ELSE eo

\* rks.py:145-147  __dm2scp: the Fock matrix of a density matrix
Dm2Scp(d) == system.fock[d]

\* rks.py:149-151, 123-127, 134-139  __scp2dm: diagonalize with self.eigen_options
Scp2Dm(s) == system.diag[eigen_options][s]

\* rks.py:153-155  __scp2scp
Scp2Scp(s) == Dm2Scp(Scp2Dm(s))

\* residual of the fixed-point equation f(y) - y
Residual(s) == Abs(Scp2Scp(s) - s)

\* a convergence test that accepts a residual equal to the tolerance
Converged_Loose(s, tol) == Residual(s) <= tol

\* the convergence test of equilibrium(): the residual is below the tolerance
Converged(s, tol) == Residual(s) < tol

\* what a caller can read from the object between calls
Exposed == [has_run |-> has_run, has_dm |-> has_dm, dm |-> dm,
            eigen_options |-> eigen_options]

NoCall == [name |-> "none", err |-> "none", dm |-> 0, eig |-> "unset"]
NoObs == [status |-> "none",
          exposed |-> [has_run |-> FALSE, has_dm |-> FALSE, dm |-> 0,
                       eigen_options |-> "unset"]]

\* rks.py:53  the flag as the constructor leaves it
InitHasRun == TRUE

\* rks.py:26-53  state after __init__
InitObject ==
    /\ has_run = InitHasRun
    /\ has_dm = FALSE
    /\ dm = 0
    /\ eigen_options = "unset"
    /\ rks_pc = "idle"
    /\ arg_dm0 = <<>>
    /\ arg_eig = "None"
    /\ maxiter = 1
    /\ f_tol = 1
    /\ y = 0
    /\ iter = 0
    /\ status = "none"
    /\ nruns = 0
    /\ prev_obs = NoObs
    /\ call = NoCall
    /\ e_tot = NoValue

\* a run that starts from the density matrix of the previous run
StartScp_Warm(dm0) == IF has_dm THEN Dm2Scp(dm) ELSE Dm2Scp(EffDm0(dm0))

\* rks.py:79  the starting point of the self-consistent iteration
StartScp(dm0) == Dm2Scp(EffDm0(dm0))

\* rks.py:55-79  run(): options, self.eigen_options, initial guess
RunStart ==
    /\ rks_pc = "idle"
    /\ nruns < MaxRuns
    /\ \E d0 \in {<<>>} \cup {<<d>> : d \in DM}, eo \in EigArgs,
          mi \in 1..MaxIter, tol \in 1..MaxTol :
          /\ arg_dm0' = d0
          /\ arg_eig' = eo
          /\ maxiter' = mi
          /\ f_tol' = tol
          /\ eigen_options' = EffEig(eo)
          /\ y' = StartScp(d0)
    /\ iter' = 0
    /\ status' = "none"
    /\ rks_pc' = "solving"
    /\ call' = NoCall
    /\ e_tot' = NoValue
    /\ prev_obs' = IF nruns > 0 THEN [status |-> status, exposed |-> Exposed] ELSE prev_obs
    /\ UNCHANGED <<system, h_terms, has_run, has_dm, dm, nruns>>
    /\ UNCHANGED <<egvars, opvars, auxvars>>

\* rks.py:82-86  one iteration of equilibrium(): the quasi-Newton update
\* picks the next iterate
SolveStep ==
    /\ rks_pc = "solving"
    /\ ~Converged(y, f_tol)
    /\ iter < maxiter
    /\ \E s \in SCP : y' = s
    /\ iter' = iter + 1
    /\ UNCHANGED <<system, h_terms, has_run, has_dm, dm, eigen_options, rks_pc,
                   arg_dm0, arg_eig, maxiter, f_tol, status, nruns, prev_obs,
                   call, e_tot>>
    /\ UNCHANGED <<egvars, opvars, auxvars>>

\* rks.py:89  the density matrix run() stores
StoredDm == Scp2Dm(y)

\* rks.py:88-91  post-processing of run() once equilibrium() has returned scp
RunReturn(st) ==
    /\ dm' = StoredDm
    /\ has_dm' = TRUE
    /\ has_run' = TRUE
    /\ status' = st
    /\ nruns' = nruns + 1
    /\ rks_pc' = "idle"
    /\ arg_dm0' = <<>>
    /\ maxiter' = 1
    /\ iter' = 0
    /\ call' = [name |-> "run", err |-> "none", dm |-> StoredDm, eig |-> eigen_options]
    /\ UNCHANGED <<system, h_terms, eigen_options, arg_eig, f_tol, y, prev_obs, e_tot>>
    /\ UNCHANGED <<egvars, opvars, auxvars>>

\* equilibrium() returns because its tolerance is met
SolveConverged ==
    /\ rks_pc = "solving"
    /\ Converged(y, f_tol)
    /\ RunReturn("converged")

\* equilibrium() returns its best iterate because maxiter is used up
SolveExhausted ==
    /\ rks_pc = "solving"
    /\ ~Converged(y, f_tol)
    /\ iter = maxiter
    /\ RunReturn("maxiter")

\* rks.py:112  the sum as the code writes it: the operator vxc, not the
\* scalar e_vxc, is subtracted from exc
EnergySum(eivals_tot, exc, vxc, e_vxc, e_elrep, nuc) ==
    TAdd(TSub(TAdd(eivals_tot, TSub(exc, vxc)), e_elrep), nuc)

\* rks.py:93-113  energy()
Energy ==
    /\ rks_pc = "idle"
    /\ IF ~has_dm
       THEN /\ call' = [name |-> "energy", err |-> "AttributeError", dm |-> 0,
                        eig |-> "unset"]
            /\ e_tot' = NoValue
       ELSE LET r == EnergySum(Scalar(h_terms.eivals_tot), Scalar(h_terms.exc), LinOp,
                               Scalar(h_terms.e_vxc), Scalar(h_terms.e_elrep),
                               Scalar(h_terms.nuc))
            IN /\ e_tot' = r
               /\ call' = [name |-> "energy",
                           err |-> IF r.kind = "TypeError" THEN "TypeError" ELSE "none",
                           dm |-> dm, eig |-> eigen_options]
    /\ UNCHANGED <<system, h_terms, has_run, has_dm, dm, eigen_options, rks_pc, arg_dm0,
                   arg_eig, maxiter, f_tol, y, iter, status, nruns, prev_obs>>
    /\ UNCHANGED <<egvars, opvars, auxvars>>

\* rks.py:115-116  aodm()
Aodm ==
    /\ rks_pc = "idle"
    /\ call' = IF has_dm
               THEN [name |-> "aodm", err |-> "none", dm |-> dm, eig |-> eigen_options]
               ELSE [name |-> "aodm", err |-> "AttributeError", dm |-> 0, eig |-> "unset"]
    /\ e_tot' = NoValue
    /\ UNCHANGED <<system, h_terms, has_run, has_dm, dm, eigen_options, rks_pc, arg_dm0,
                   arg_eig, maxiter, f_tol, y, iter, status, nruns, prev_obs>>
    /\ UNCHANGED <<egvars, opvars, auxvars>>

NextRKS ==
    \/ RunStart
    \/ SolveStep
    \/ SolveConverged
    \/ SolveExhausted
    \/ Energy
    \/ Aodm

----------------------------------------------------------------------------
(* eigendecomp.forward and the eigen-solvers *)

Min(a, b) == IF a < b THEN a ELSE b

Vals == 0..MaxVal

\* ascending sequences of length n over Vals
Ascending(n) == {q \in [1..n -> Vals] : \A j \in 1..(n - 1) : q[j] <= q[j + 1]}

\* str.lower() on the method names and v_init names the model passes
Lower(m) ==
    CASE m = "Davidson" -> "davidson"
      [] m = "LANCZOS" -> "lanczos"
      [] m = "ExactEig" -> "exacteig"
      [] m = "RandN" -> "randn"
      [] OTHER -> m

MethodNames == {"davidson", "Davidson", "lanczos", "LANCZOS", "exacteig", "ExactEig",
                "power"}
VInitNames == {"eye", "randn", "RandN", "rand", "random", "zeros"}

\* eigpairs.py:14-16  config = set_default_option({"method": "davidson"}, options)
ConfigMethod(opt) == IF opt = <<>> THEN "davidson" ELSE opt[1]

\* a dispatch that falls back to the default method
Dispatch_Fallback(m) ==
    IF Lower(m) \in {"davidson", "lanczos", "exacteig"} THEN Lower(m) ELSE "davidson"

\* eigpairs.py:19-27  the solver eigendecomp.forward dispatches to
Dispatch(m) ==
    IF Lower(m) \in {"davidson", "lanczos", "exacteig"} THEN Lower(m) ELSE "unknown"

\* a shape check that lets every shape pass
ShapeOk_Any(na, nc) == TRUE

\* eigpairs.py:307-311  _check_and_get_shape: whether the shape passes
ShapeOk(na, nc) == na = nc

\* eigpairs.py:313-329  _set_initial_v: whether vinit_type is known
VInitKnown(t) == t \in {"eye", "randn", "random", "rand"}

\* eigpairs.py:313-329  _set_initial_v: number of columns of the result
\* (torch.eye(na, nguess) is returned as is, the random ones through QR)
InitialWidth(t, na, nguess) == IF t = "eye" THEN nguess ELSE Min(na, nguess)

\* torch.qr: number of columns of Q for a matrix of shape (na, w)
QRWidth(na, w) == Min(na, w)

\* the slice x[:, -k:]
Slice_Tail(q, k) == SubSeq(q, Len(q) - Min(k, Len(q)) + 1, Len(q))

\* x[:, :k]
Slice(q, k) == SubSeq(q, 1, Min(k, Len(q)))

\* whether (nbatch, a) - (nbatch, b) broadcasts
Broadcasts(a, b) == Len(a) = Len(b) \/ Len(a) = 1 \/ Len(b) = 1

Max2(a, b) == IF a > b THEN a ELSE b

RECURSIVE MaxAbsDiff(_, _, _)
\* (a - b).abs().max() over the first j columns of the broadcast difference
MaxAbsDiff(a, b, j) ==
    IF j = 0 THEN 0
    ELSE Max2(Abs(a[IF Len(a) = 1 THEN 1 ELSE j] - b[IF Len(b) = 1 THEN 1 ELSE j]),
              MaxAbsDiff(a, b, j - 1))

\* eigpairs.py:133, 214  dev
Dev(a, b) == MaxAbsDiff(a, b, Max2(Len(a), Len(b)))

\* eigpairs.py:96, 171  min_eps in units of the eigenvalue resolution
min_eps == 1

\* torch.symeig(T) for T = V^T A V, V of w columns: ascending values.  For
\* orthonormal V (w <= na) they interlace the spectrum ev of A and are the
\* spectrum itself when w = na; for the na x w identity block with w > na
\* they are the spectrum and w - na zeros.
RitzSets(w, na, ev) ==
    IF w <= na
    THEN {q \in Ascending(w) : \A j \in 1..w : ev[j] <= q[j] /\ q[j] <= ev[j + na - w]}
    ELSE {[j \in 1..w |-> IF j <= w - na THEN 0 ELSE ev[j - (w - na)]]}

\* the Ritz values of a subspace that contains the previous one interlace
\* the previous Ritz values (old = <<>>: there are none yet; more old values
\* than na: the previous V was not orthonormal)
Nested(q, old, na) ==
    (old # <<>> /\ Len(old) <= na /\ Len(old) <= Len(q))
        => \A j \in 1..Len(old) :
               /\ q[j] <= old[j]
               /\ old[j] <= q[j + Len(q) - Len(old)]

\* eigpairs.py:119-130, 209, 247-257  torch.symeig(T) after V was extended
\* and orthogonalized by QR
RitzNext(w, na, ev, old) == {q \in RitzSets(w, na, ev) : Nested(q, old, na)}

\* eigpairs.py:170  nguess defaults to neig + 1
NGuess(in) == IF in.nguess = <<>> THEN in.neig + 1 ELSE in.nguess[1]

\* eigpairs.py:175  max_addition defaults to neig
MaxAddition(in) == in.neig

\* eigpairs.py:98, 174  v_init defaults to "randn"
VInit(in) == IF in.v_init = <<>> THEN "randn" ELSE in.v_init[1]

NoRet == [evals |-> <<>>, nvecs |-> 0, veclen |-> 0]

NoCtx == [evals |-> <<>>, nvecs |-> 0, ops |-> 0]

NoBackward == [calls |-> 0, reapplied |-> 0, traversed |-> 0, err |-> "none",
               first |-> <<>>, last |-> <<>>]

EigInputs ==
    {in \in [method : {<<>>} \cup {<<m>> : m \in MethodNames},
             na : 1..MaxN, nc : 1..(MaxN + 1), neig : 1..MaxN,
             max_niter : 1..MaxNiter,
             nguess : {<<>>} \cup {<<g>> : g \in 1..MaxN},
             v_init : {<<>>} \cup {<<t>> : t \in VInitNames},
             ev : UNION {Ascending(n) : n \in 1..MaxN}] :
        /\ in.nc \in {in.na, in.na + 1}
        /\ in.neig <= in.na
        /\ Len(in.ev) = in.na}

IdleEig ==
    /\ eg_pc = "call"
    /\ eg_solver = "none"
    /\ V_w = 0
    /\ eg_i = 0
    /\ eigvalT = <<>>
    /\ prev_eigvals = <<>>
    /\ stop_reason = "none"
    /\ napply = 0
    /\ niter = 0
    /\ eg_err = "none"
    /\ eg_ret = NoRet
    /\ ctx_saved = FALSE
    /\ eg_at = 0
    /\ ctx_graph = NoCtx
    /\ graph_alive = TRUE
    /\ bw = NoBackward

\* the call ends with an exception
EigRaise(e) ==
    /\ eg_err' = e
    /\ eg_pc' = "done"

\* eigpairs.py:29-35  forward saves for the backward pass and returns clones
EigReturn(evals, nvecs, ops) ==
    /\ eg_ret' = [evals |-> evals, nvecs |-> nvecs, veclen |-> eg_in.na]
    /\ ctx_saved' = TRUE
    /\ ctx_graph' = [evals |-> evals, nvecs |-> nvecs, ops |-> ops]
    /\ eg_pc' = "done"

\* eigpairs.py:286-295  exacteig
ExactEig ==
    IF ~ShapeOk(eg_in.na, eg_in.nc)
    THEN /\ EigRaise("TypeError")
         /\ UNCHANGED <<V_w, eg_i, eigvalT, eg_at, prev_eigvals, stop_reason, napply, niter,
                        eg_ret, ctx_saved, ctx_graph>>
    ELSE /\ V_w' = eg_in.na
         /\ napply' = napply + 1
         /\ \E q \in RitzSets(eg_in.na, eg_in.na, eg_in.ev) :
               /\ eigvalT' = q
               /\ eg_at' = niter
               /\ EigReturn(Slice(q, eg_in.neig), Min(eg_in.neig, Len(q)), napply + 1)
         /\ UNCHANGED <<eg_i, prev_eigvals, stop_reason, niter, eg_err>>

\* eigpairs.py:103-113  lanczos up to its loop
LanczosSetup ==
    IF ~ShapeOk(eg_in.na, eg_in.nc)
    THEN /\ EigRaise("TypeError")
         /\ UNCHANGED <<V_w, eg_i, eigvalT, eg_at, prev_eigvals, stop_reason, napply, niter,
                        eg_ret, ctx_saved, ctx_graph>>
    ELSE IF ~VInitKnown(Lower(VInit(eg_in)))
    THEN /\ EigRaise("ValueError")
         /\ UNCHANGED <<V_w, eg_i, eigvalT, eg_at, prev_eigvals, stop_reason, napply, niter,
                        eg_ret, ctx_saved, ctx_graph>>
    ELSE /\ V_w' = InitialWidth(Lower(VInit(eg_in)), eg_in.na, 1)
         /\ eg_i' = 0
         /\ prev_eigvals' = <<>>
         /\ stop_reason' = "max_niter"
         /\ eg_pc' = "lanczos"
         /\ UNCHANGED <<eigvalT, eg_at, napply, niter, eg_err, eg_ret, ctx_saved, ctx_graph>>

\* eigpairs.py:186-197  davidson up to its loop
DavidsonSetup ==
    IF ~ShapeOk(eg_in.na, eg_in.nc)
    THEN /\ EigRaise("TypeError")
         /\ UNCHANGED <<V_w, eg_i, eigvalT, eg_at, prev_eigvals, stop_reason, napply, niter,
                        eg_ret, ctx_saved, ctx_graph>>
    ELSE IF ~VInitKnown(Lower(VInit(eg_in)))
    THEN /\ EigRaise("ValueError")
         /\ UNCHANGED <<V_w, eg_i, eigvalT, eg_at, prev_eigvals, stop_reason, napply, niter,
                        eg_ret, ctx_saved, ctx_graph>>
    ELSE /\ V_w' = InitialWidth(Lower(VInit(eg_in)), eg_in.na, NGuess(eg_in))
         /\ eg_i' = NGuess(eg_in)
         /\ prev_eigvals' = <<>>
         /\ stop_reason' = "max_niter"
         /\ eg_pc' = "davidson"
         /\ UNCHANGED <<eigvalT, eg_at, napply, niter, eg_err, eg_ret, ctx_saved, ctx_graph>>

\* eigpairs.py:13-27  eigendecomp.forward: the method is looked up and the
\* solver entered
EigForward ==
    /\ eg_pc = "call"
    /\ LET d == Dispatch(ConfigMethod(eg_in.method))
       IN /\ eg_solver' = IF d = "unknown" THEN "none" ELSE d
          /\ CASE d = "davidson" -> DavidsonSetup
               [] d = "lanczos" -> LanczosSetup
               [] d = "exacteig" -> ExactEig
               [] OTHER ->
                    /\ EigRaise("RuntimeError: Unknown eigen decomposition method")
                    /\ UNCHANGED <<V_w, eg_i, eigvalT, eg_at, prev_eigvals, stop_reason,
                                   napply, niter, eg_ret, ctx_saved, ctx_graph>>
    /\ UNCHANGED <<eg_in, bwvars,
                   rksvars, opvars, auxvars>>

\* eigpairs.py:114-139  one iteration of the lanczos loop
LanczosIter ==
    /\ eg_pc = "lanczos"
    /\ eg_i < eg_in.max_niter
    /\ niter' = niter + 1
    /\ IF eg_i >= V_w
       THEN \* v = V[:,:,i] is out of range
            /\ EigRaise("IndexError")
            /\ UNCHANGED <<V_w, eg_i, eigvalT, eg_at, prev_eigvals, stop_reason, napply>>
       ELSE LET w == QRWidth(eg_in.na, V_w + 1)
            IN /\ V_w' = w
               /\ napply' = napply + 2
               /\ IF eg_i + 1 < eg_in.neig
                  THEN /\ eg_i' = eg_i + 1
                       /\ UNCHANGED <<eigvalT, eg_at, prev_eigvals, stop_reason, eg_pc, eg_err>>
                  ELSE \E q \in RitzNext(w, eg_in.na, eg_in.ev, eigvalT) :
                         /\ eigvalT' = q
                         /\ eg_at' = niter + 1
                         /\ IF prev_eigvals # <<>>
                                /\ ~Broadcasts(Slice(q, eg_in.neig), prev_eigvals)
                            THEN /\ EigRaise("RuntimeError: size mismatch")
                                 /\ UNCHANGED <<eg_i, prev_eigvals, stop_reason>>
                            ELSE IF prev_eigvals # <<>>
                                    /\ Dev(Slice(q, eg_in.neig), prev_eigvals) < min_eps
                            THEN /\ stop_reason' = "min_eps"
                                 /\ eg_pc' = "lanczos_exit"
                                 /\ UNCHANGED <<eg_i, prev_eigvals, eg_err>>
                            ELSE /\ prev_eigvals' = Slice(q, eg_in.neig)
                                 /\ eg_i' = eg_i + 1
                                 /\ UNCHANGED <<stop_reason, eg_pc, eg_err>>
    /\ UNCHANGED <<eg_in, eg_solver, eg_ret, ctx_saved, ctx_graph, bwvars,
                   rksvars, opvars, auxvars>>

\* eigpairs.py:114  the lanczos loop has run max_niter times
LanczosLoopEnd ==
    /\ eg_pc = "lanczos"
    /\ eg_i >= eg_in.max_niter
    /\ eg_pc' = "lanczos_exit"
    /\ UNCHANGED <<eg_in, eg_solver, V_w, eg_i, eigvalT, eg_at, prev_eigvals, stop_reason,
                   napply, niter, eg_err, eg_ret, ctx_saved, ctx_graph, bwvars,
                   rksvars, opvars, auxvars>>

\* eigpairs.py:141-143, 259-261  the slices after the loop, then the return
\* through eigendecomp.forward
SolverExit ==
    /\ eg_pc \in {"lanczos_exit", "davidson_exit"}
    /\ IF eigvalT = <<>>
       THEN \* eigvalT was never assigned
            /\ EigRaise("UnboundLocalError")
            /\ UNCHANGED <<eg_ret, ctx_saved, ctx_graph>>
       ELSE /\ EigReturn(Slice(eigvalT, eg_in.neig), Min(eg_in.neig, Len(eigvalT)),
                         napply)
            /\ UNCHANGED eg_err
    /\ UNCHANGED <<eg_in, eg_solver, V_w, eg_i, eigvalT, eg_at, prev_eigvals, stop_reason,
                   napply, niter, bwvars,
                   rksvars, opvars, auxvars>>

\* the two tests in the other order
DavidsonStop_RankFirst(q, prev, w, na, neig) ==
    IF w = na THEN "full_rank"
    ELSE IF prev # <<>> /\ Dev(Slice(q, neig), prev) < min_eps THEN "min_eps"
    ELSE "none"

\* eigpairs.py:212-224  the two breaks of the davidson loop: the tolerance
\* test, then the full-rank test ("none": the loop goes on)
DavidsonStop(q, prev, w, na, neig) ==
    IF prev # <<>> /\ Dev(Slice(q, neig), prev) < min_eps THEN "min_eps"
    ELSE IF w = na THEN "full_rank"
    ELSE "none"

\* eigpairs.py:198-257  one iteration of the davidson loop
DavidsonIter ==
    /\ eg_pc = "davidson"
    /\ eg_i < eg_in.max_niter
    /\ niter' = niter + 1
    /\ \E q \in RitzNext(V_w, eg_in.na, eg_in.ev, eigvalT) :
          /\ eigvalT' = q
          /\ eg_at' = niter + 1
          /\ IF prev_eigvals # <<>> /\ ~Broadcasts(Slice(q, eg_in.neig), prev_eigvals)
             THEN /\ EigRaise("RuntimeError: size mismatch")
                  /\ napply' = napply + 1
                  /\ UNCHANGED <<V_w, eg_i, prev_eigvals, stop_reason>>
             ELSE IF DavidsonStop(q, prev_eigvals, V_w, eg_in.na, eg_in.neig) # "none"
             THEN /\ stop_reason' = DavidsonStop(q, prev_eigvals, V_w, eg_in.na, eg_in.neig)
                  /\ eg_pc' = "davidson_exit"
                  /\ napply' = napply + 1
                  /\ UNCHANGED <<V_w, eg_i, prev_eigvals, eg_err>>
             ELSE LET nadd == Min(Len(q), MaxAddition(eg_in))
                  IN /\ prev_eigvals' = Slice(q, eg_in.neig)
                     /\ napply' = napply + 1 + nadd
                     /\ V_w' = QRWidth(eg_in.na, V_w + nadd)
                     /\ eg_i' = eg_i + NGuess(eg_in)
                     /\ UNCHANGED <<stop_reason, eg_pc, eg_err>>
    /\ UNCHANGED <<eg_in, eg_solver, eg_ret, ctx_saved, ctx_graph, bwvars,
                   rksvars, opvars, auxvars>>

\* eigpairs.py:198  range(nguess, max_niter, nguess) is used up
DavidsonLoopEnd ==
    /\ eg_pc = "davidson"
    /\ eg_i >= eg_in.max_niter
    /\ eg_pc' = "davidson_exit"
    /\ UNCHANGED <<eg_in, eg_solver, V_w, eg_i, eigvalT, eg_at, prev_eigvals, stop_reason,
                   napply, niter, eg_err, eg_ret, ctx_saved, ctx_graph, bwvars,
                   rksvars, opvars, auxvars>>

NextEig ==
    \/ EigForward
    \/ LanczosIter
    \/ LanczosLoopEnd
    \/ DavidsonIter
    \/ DavidsonLoopEnd
    \/ SolverExit

\* a backward pass that frees the buffers of the graph it has walked
RetainGraph_Free == FALSE

\* eigpairs.py:41  retain_graph=True: the graph keeps its buffers
RetainGraph == TRUE

\* eigpairs.py:39-41  the operator applications backward makes itself: none,
\* torch.autograd.grad walks the graph that ctx.evals and ctx.evecs carry
BackwardReapplications == 0

\* eigpairs.py:39-41  the gradient of one entry of params: the vector-Jacobian
\* product of the graph of (ctx.evals, ctx.evecs) with the incoming gradients
GradParam(i, g) ==
    [param |-> i, g |-> g, evals |-> ctx_graph.evals, ops |-> ctx_graph.ops]

\* eigpairs.py:42  (None, None, None, *grad_params)
BackwardResult(g) ==
    [nones |-> 3, grads |-> [i \in 1..eg_params.n |-> GradParam(i, g)]]

\* eigpairs.py:37-42  eigendecomp.backward, invoked with the incoming
\* gradients eg_params.g
EigBackward ==
    /\ eg_pc = "done"
    /\ ctx_saved
    /\ bw.calls < MaxBackward
    /\ IF ~graph_alive
       THEN /\ bw' = [bw EXCEPT !.calls = @ + 1, !.err = "RuntimeError",
                                !.last = <<"RuntimeError">>]
            /\ UNCHANGED graph_alive
       ELSE LET r == BackwardResult(eg_params.g)
            IN /\ bw' = [calls |-> bw.calls + 1,
                         reapplied |-> bw.reapplied + BackwardReapplications,
                         traversed |-> ctx_graph.ops + BackwardReapplications,
                         err |-> "none",
                         first |-> IF bw.calls = 0 THEN <<r>> ELSE bw.first,
                         last |-> <<r>>]
               /\ graph_alive' = RetainGraph
    /\ UNCHANGED <<eg_in, eg_pc, eg_solver, V_w, eg_i, eigvalT, prev_eigvals, stop_reason,
                   napply, niter, eg_err, eg_ret, ctx_saved, eg_at, ctx_graph, eg_params,
                   rksvars, opvars, auxvars>>

\* calls on a square operator with a known method and initial subspace
BwdInputs ==
    {in \in EigInputs : /\ in.na = in.nc
                        /\ in.method \in {<<>>, <<"lanczos">>, <<"exacteig">>}
                        /\ in.v_init \in {<<>>, <<"eye">>}
                        /\ in.nguess = <<>>}

\* params and the incoming gradients of the backward invocations
BwdParams == [n : 1..MaxParams, g : 0..MaxGrad, grad : {"None"}]

NextEigBwd ==
    \/ NextEig
    \/ EigBackward

----------------------------------------------------------------------------
(* _set_initial_v and torch's default random generator *)

\* eigpairs.py:314  the seed
Seed == 12421

\* a generator state: the seed it was last seeded with and the number of
\* draws made since (modulo MaxRng + 1)
RngStates == [seed : {0, Seed}, pos : 0..MaxRng]

\* a call that leaves the generator as it finds it
ManualSeed_None(rng) == rng

\* eigpairs.py:314  torch.manual_seed(12421)
ManualSeed(rng) == [seed |-> Seed, pos |-> 0]

\* the generator after a draw
Advance(rng) == [rng EXCEPT !.pos = (@ + 1) % (MaxRng + 1)]

\* torch.randn / torch.rand: the numbers drawn are a function of the
\* distribution, the generator state and the shape
Sample(dist, rng, nbatch, na, nguess) ==
    [dist |-> dist, rng |-> rng, shape |-> <<nbatch, na, nguess>>]

\* eigpairs.py:313-329  _set_initial_v: the exception or the tensor it
\* returns, and the generator state it leaves
SetInitialV(vinit_type, nbatch, na, nguess, rng) ==
    LET g == ManualSeed(rng)
    IN CASE vinit_type = "eye" ->
              [err |-> "none", rng |-> g,
               V |-> [from |-> <<"eye", na, nguess, nbatch>>, qr |-> FALSE,
                      w |-> InitialWidth(vinit_type, na, nguess)]]
         [] vinit_type = "randn" ->
              [err |-> "none", rng |-> Advance(g),
               V |-> [from |-> <<Sample("normal", g, nbatch, na, nguess)>>, qr |-> TRUE,
                      w |-> InitialWidth(vinit_type, na, nguess)]]
         [] vinit_type \in {"random", "rand"} ->
              [err |-> "none", rng |-> Advance(g),
               V |-> [from |-> <<Sample("uniform", g, nbatch, na, nguess)>>, qr |-> TRUE,
                      w |-> InitialWidth(vinit_type, na, nguess)]]
         [] OTHER ->
              [err |-> "ValueError", rng |-> g,
               V |-> [from |-> <<>>, qr |-> FALSE, w |-> 0]]

InitVArgs ==
    [vinit_type : {"eye", "randn", "random", "rand", "zeros"}, nbatch : 1..MaxBatch,
     na : 1..MaxN, nguess : 1..MaxN]

ivothers == <<rksvars, egvars, opvars, cpvars, prvars, bsvars>>

\* the process draws random numbers somewhere else
OtherDraw ==
    /\ iv_rng' \in {Advance(iv_rng), [seed |-> 0, pos |-> 0]} \ {iv_rng}
    /\ UNCHANGED <<iv_args, iv_first, iv_last, iv_calls>>
    /\ UNCHANGED ivothers

\* eigpairs.py:313-329  one call of _set_initial_v with the arguments iv_args
CallSetInitialV ==
    /\ iv_calls < MaxInitCalls
    /\ LET r == SetInitialV(iv_args.vinit_type, iv_args.nbatch, iv_args.na,
                            iv_args.nguess, iv_rng)
           out == <<[err |-> r.err, V |-> r.V, entry |-> iv_rng, exit |-> r.rng]>>
       IN /\ iv_rng' = r.rng
          /\ iv_last' = out
          /\ iv_first' = IF iv_calls = 0 THEN out ELSE iv_first
    /\ iv_calls' = iv_calls + 1
    /\ UNCHANGED iv_args
    /\ UNCHANGED ivothers

NextInitV ==
    \/ OtherDraw
    \/ CallSetInitialV

----------------------------------------------------------------------------
(* EKS functionals and the periodic Hamiltonian: setup and getparamnames *)

\* a parameter name is a sequence of tokens; prefix + "a." appends a token
AddPrefix_Drop(prefix, tag) == <<tag>>

\* base_eks.py:156-157  prefix + "a."
AddPrefix(prefix, tag) == Append(prefix, tag)

\* the parameter names a concrete functional declares in getfwdparamnames
LeafOwn == {<<"p">>, <<"p", "q">>}

RECURSIVE EKSTrees(_)
\* base_eks.py:97-99, 119-123  functionals: concrete ones and sums of two
EKSTrees(d) ==
    IF d = 0
    THEN {[kind |-> "leaf", own |-> o] : o \in LeafOwn}
    ELSE EKSTrees(d - 1)
         \cup {[kind |-> "add", a |-> x, b |-> z] : x, z \in EKSTrees(d - 1)}

RECURSIVE GetFwdParamNames(_, _)
\* base_eks.py:155-157  AddEKS.getfwdparamnames; a concrete functional
\* returns prefix + name for each name it declares
GetFwdParamNames(t, prefix) ==
    IF t.kind = "leaf"
    THEN [j \in 1..Len(t.own) |-> Append(prefix, t.own[j])]
    ELSE GetFwdParamNames(t.a, AddPrefix(prefix, "a."))
         \o GetFwdParamNames(t.b, AddPrefix(prefix, "b."))

Names(l) == [err |-> "none", names |-> l]

Raises(e) == [err |-> e, names |-> <<>>]

\* the names the density-fitting object reports for get_elrep
DFParamNames(prefix) == <<Append(prefix, "j3c"), Append(prefix, "el_mat")>>

\* the names the base Hamiltonian reports for get_vxc
BaseHamiltonParamNames(prefix) == <<Append(prefix, "basis")>>

\* hcgto_pbc.py:229-257  HamiltonCGTO_PBC.getparamnames
HamGetParamNames(df, methodname, prefix) ==
    CASE methodname = "get_kinnucl" -> Names(<<Append(prefix, "_kinnucl_mat")>>)
      [] methodname = "get_nuclattr" -> Names(<<Append(prefix, "_nucl_mat")>>)
      [] methodname = "get_overlap" -> Names(<<Append(prefix, "_olp_mat")>>)
      [] methodname = "get_elrep" ->
           IF df THEN Names(DFParamNames(Append(prefix, "_df.")))
           ELSE Raises("AssertionError")
      [] methodname = "ao_orb2dm" -> Names(<<>>)
      [] methodname = "get_vext" ->
           Names(<<Append(prefix, "basis_dvolume_conj"), Append(prefix, "basis")>>)
      [] methodname = "get_grad_vext" ->
           Names(<<Append(prefix, "basis_dvolume_conj"), Append(prefix, "grad_basis")>>)
      [] methodname = "get_lapl_vext" ->
           Names(<<Append(prefix, "basis_dvolume_conj"), Append(prefix, "lapl_basis")>>)
      [] methodname = "get_vxc" -> Names(BaseHamiltonParamNames(prefix))
      [] methodname = "_get_dens_at_grid" -> Names(<<Append(prefix, "basis")>>)
      [] methodname = "_get_grad_dens_at_grid" ->
           Names(<<Append(prefix, "basis"), Append(prefix, "grad_basis")>>)
      [] methodname = "_get_lapl_dens_at_grid" ->
           Names(<<Append(prefix, "basis"), Append(prefix, "lapl_basis")>>)
      [] OTHER -> Raises("KeyError")

\* the functional's own _grid and _hmodel: those of the object itself
Root(eks) == IF eks.tree.kind = "leaf" THEN eks.first ELSE eks.rest

\* base_eks.py:106-115  BaseEKS.getparamnames
EksGetParamNames(eks, ham, methodname, prefix) ==
    CASE methodname \in {"forward", "__call__", "potential"} ->
           Names(GetFwdParamNames(eks.tree, prefix))
      [] methodname = "potential_linop" ->
           IF ~Root(eks).hmodel THEN Raises("RuntimeError")
           ELSE Names(GetFwdParamNames(eks.tree, prefix)
                      \o HamGetParamNames(ham.df, "get_vext",
                                          Append(prefix, "hmodel.")).names)
      [] OTHER -> Raises("KeyError")

\* the method names the model asks for
AskedNames ==
    {"forward", "__call__", "potential", "potential_linop", "get_kinnucl",
     "get_nuclattr", "get_overlap", "get_elrep", "ao_orb2dm", "get_vext",
     "get_grad_vext", "get_lapl_vext", "get_vxc", "_get_dens_at_grid",
     "_get_grad_dens_at_grid", "_get_lapl_dens_at_grid", "get_exc", "aodm2dens",
     "set_grid", "nosuchmethod"}

Prefixes == {<<>>, <<"xc.">>}

\* hcgto_pbc.py:24-70, 154-187  an attribute __init__ does not assign is
\* "unset" until setup_grid assigns it
NoCpCall ==
    [name |-> "none", arg |-> "", prefix |-> <<>>, err |-> "none", names |-> <<>>,
     returned |-> FALSE, grid |-> FALSE, hmodel |-> FALSE, setup |-> FALSE]

\* the record of a call that found the state as it is now
CpCall(name, arg, prefix, err, names) ==
    [name |-> name, arg |-> arg, prefix |-> prefix, err |-> err, names |-> names,
     returned |-> (err = "none"), grid |-> Root(cp_eks).grid # 0,
     hmodel |-> Root(cp_eks).hmodel, setup |-> cp_ham.grid # 0]

cpothers == <<rksvars, egvars, opvars, ivvars, prvars, bsvars>>

\* base_eks.py:13-14, 126-129  set_grid: every node of the tree gets the grid
EksSetGrid ==
    /\ \E g \in 1..MaxGrids :
          cp_eks' = [cp_eks EXCEPT !.first.grid = g,
                        !.rest.grid = IF cp_eks.tree.kind = "add" THEN g ELSE @]
    /\ cp_call' = CpCall("set_grid", "", <<>>, "none", <<>>)
    /\ UNCHANGED <<cp_ham, cpothers>>

\* base_eks.py:16-18, 131-135  set_hmodel: every node stores hmodel and then
\* hmodel.grid, the attribute that setup_grid assigns; without it the first
\* concrete functional reached raises after it has stored hmodel
EksSetHmodel ==
    /\ IF cp_ham.grid # 0
       THEN /\ cp_eks' = [cp_eks EXCEPT
                             !.first = [grid |-> cp_ham.grid, hmodel |-> TRUE],
                             !.rest = IF cp_eks.tree.kind = "add"
                                      THEN [grid |-> cp_ham.grid, hmodel |-> TRUE]
                                      ELSE @]
            /\ cp_call' = CpCall("set_hmodel", "", <<>>, "none", <<>>)
       ELSE /\ cp_eks' = [cp_eks EXCEPT !.first.hmodel = TRUE]
            /\ cp_call' = CpCall("set_hmodel", "", <<>>, "AttributeError", <<>>)
    /\ UNCHANGED <<cp_ham, cpothers>>

\* base_eks.py:24-28  the grid property
EksReadGrid ==
    /\ cp_call' = CpCall("grid", "", <<>>,
                         IF Root(cp_eks).grid # 0 THEN "none" ELSE "RuntimeError", <<>>)
    /\ UNCHANGED <<cp_eks, cp_ham, cpothers>>

\* base_eks.py:30-34  the hmodel property
EksReadHmodel ==
    /\ cp_call' = CpCall("hmodel", "", <<>>,
                         IF Root(cp_eks).hmodel THEN "none" ELSE "RuntimeError", <<>>)
    /\ UNCHANGED <<cp_eks, cp_ham, cpothers>>

\* hcgto_pbc.py:189-196  get_vext: the error it ends in ("none": it returns
\* the operator)
GetVextError(ham) ==
    IF ham.is_ao_set = "unset" THEN "AttributeError"
    ELSE IF ham.is_ao_set = "False" THEN "RuntimeError"
    ELSE "none"

\* hcgto_pbc.py:198-205  get_grad_vext
GetGradVextError(ham) ==
    IF ham.is_grad_ao_set = "unset" THEN "AttributeError"
    ELSE IF ham.is_grad_ao_set = "False" THEN "RuntimeError"
    ELSE "none"

\* base_eks.py:81-90, 146-149, 246-259  potential_linop: the potential, then
\* self.hmodel.get_vext; a sum asks its first operand, then its second
EksPotentialLinop ==
    /\ cp_call' = CpCall("potential_linop", "", <<>>,
                         IF ~cp_eks.first.hmodel THEN "RuntimeError"
                         ELSE IF GetVextError(cp_ham) # "none" THEN GetVextError(cp_ham)
                         ELSE IF cp_eks.tree.kind = "add" /\ ~cp_eks.rest.hmodel
                         THEN "RuntimeError"
                         ELSE "none", <<>>)
    /\ UNCHANGED <<cp_eks, cp_ham, cpothers>>

\* hcgto_pbc.py:154-187  setup_grid(grid, xc) with an xc of the given
\* family: the basis is evaluated on grid, its gradient only for a family
\* above 1 (LDA), its Laplacian only for a family above 2 (GGA)
HamSetupGrid ==
    /\ \E g \in 1..MaxGrids, family \in {1, 2, 3} :
          cp_ham' = [cp_ham EXCEPT
                        !.grid = g,
                        !.is_ao_set = "True",
                        !.basis = g,
                        !.is_grad_ao_set = IF family >= 2 THEN "True" ELSE @,
                        !.grad_basis = IF family >= 2 THEN g ELSE @,
                        !.is_lapl_ao_set = IF family >= 3 THEN "True" ELSE @,
                        !.lapl_basis = IF family >= 3 THEN g ELSE @]
    /\ cp_call' = CpCall("setup_grid", "", <<>>, "none", <<>>)
    /\ UNCHANGED <<cp_eks, cpothers>>

\* hcgto_pbc.py:189-196  get_vext
HamGetVext ==
    /\ cp_call' = CpCall("get_vext", "", <<>>, GetVextError(cp_ham), <<>>)
    /\ UNCHANGED <<cp_eks, cp_ham, cpothers>>

\* hcgto_pbc.py:198-205  get_grad_vext
HamGetGradVext ==
    /\ cp_call' = CpCall("get_grad_vext", "", <<>>, GetGradVextError(cp_ham), <<>>)
    /\ UNCHANGED <<cp_eks, cp_ham, cpothers>>

\* base_eks.py:106-115  getparamnames of the functional
EksGetParamNamesCall ==
    /\ \E mn \in AskedNames, pf \in Prefixes :
          LET r == EksGetParamNames(cp_eks, cp_ham, mn, pf)
          IN cp_call' = CpCall("eks.getparamnames", mn, pf, r.err, r.names)
    /\ UNCHANGED <<cp_eks, cp_ham, cpothers>>

\* hcgto_pbc.py:229-257  getparamnames of the Hamiltonian
HamGetParamNamesCall ==
    /\ \E mn \in AskedNames, pf \in Prefixes :
          LET r == HamGetParamNames(cp_ham.df, mn, pf)
          IN cp_call' = CpCall("ham.getparamnames", mn, pf, r.err, r.names)
    /\ UNCHANGED <<cp_eks, cp_ham, cpothers>>

NextComp ==
    \/ EksSetGrid
    \/ EksSetHmodel
    \/ EksReadGrid
    \/ EksReadHmodel
    \/ EksPotentialLinop
    \/ HamSetupGrid
    \/ HamGetVext
    \/ HamGetGradVext
    \/ EksGetParamNamesCall
    \/ HamGetParamNamesCall

----------------------------------------------------------------------------
(* davidson: the preconditioner of the residual correction *)

\* denominators left as they are
Clamp_None(finv, eps_cond) == finv

\* eigpairs.py:233  finv[finv.abs() < eps_cond] = eps_cond
Clamp(finv, eps_cond) ==
    [j \in 1..Len(finv) |-> IF Abs(finv[j]) < eps_cond THEN eps_cond ELSE finv[j]]

\* eigpairs.py:232  dA - eigvalT[:,i:i+1], a new tensor
Denominators(dA, lambda) == [j \in 1..Len(dA) |-> dA[j] - lambda]

\* eigpairs.py:234  1. / finv: floating-point division raises nothing, a
\* zero denominator gives inf
Reciprocal(finv) ==
    [j \in 1..Len(finv) |-> IF finv[j] = 0 THEN [num |-> "inf", den |-> 0]
                             ELSE [num |-> "1", den |-> finv[j]]]

\* the inputs of one pass of lines 229-242: dA, ascending Ritz values, nadd
\* and the option eps_cond, in units of the model's resolution
PrecondInputs ==
    {in \in [dA : UNION {[1..n -> -MaxDen..MaxDen] : n \in 1..2},
             eigvalT : UNION {Ascending(n) : n \in 1..2},
             nadd : 1..2,
             eps_cond : 0..MaxEps] : in.nadd <= Len(in.eigvalT)}

\* eigpairs.py:230-236  one pass of the loop over the Ritz values that get a
\* correction vector
PrecondPass ==
    /\ pr_i < pr_in.nadd
    /\ LET finv == Clamp(Denominators(pr_dA, pr_in.eigvalT[pr_i + 1]), pr_in.eps_cond)
       IN /\ pr_finv' = finv
          /\ pr_f' = Reciprocal(finv)
    /\ pr_i' = pr_i + 1
    /\ UNCHANGED <<pr_in, pr_dA, pr_err>>
    /\ UNCHANGED <<rksvars, egvars, opvars, ivvars, cpvars, bsvars>>

NextPrecond == PrecondPass

----------------------------------------------------------------------------
(* CGTOBasis.loadbasis *)

\* the files of the database: "nofile", or the angular momenta of the
\* shells the file lists
FileContents == {"nofile", <<0>>, <<0, 1>>, <<0, 2>>}

\* number of basis functions expand_basis makes of a shell of angular
\* momentum l: (l+1)(l+2)/2 cartesian ones, 2l+1 spherical ones
ExpandBasis(shells, cartesian) ==
    [j \in 1..Len(shells) |->
        IF cartesian THEN ((shells[j] + 1) * (shells[j] + 2)) \div 2
        ELSE 2 * shells[j] + 1]

\* cgto_basis.py:24-71  the parse of the file of atomz: (ijks, alphas,
\* coeffs, nelmts) as a function of the file and of cartesian
ParseFile(atomz, shells, cartesian) ==
    [atomz |-> atomz, shells |-> shells, nelmts |-> ExpandBasis(shells, cartesian)]

\* cgto_basis.py:21-22, 72  the key of res_memory
MemoKey(atomz, cartesian) == <<atomz>>

MemoKeys == {MemoKey(z, c) : z \in 1..MaxZ, c \in BOOLEAN}

\* cgto_basis.py:20-73  loadbasis(atomz, cartesian)
LoadBasis ==
    /\ \E atomz \in 1..MaxZ, cartesian \in BOOLEAN :
          LET key == MemoKey(atomz, cartesian)
          IN IF bs_memory[key] # <<>>
             THEN /\ bs_call' = [atomz |-> atomz, cartesian |-> cartesian, err |-> "none",
                                 res |-> bs_memory[key], hit |-> TRUE]
                  /\ UNCHANGED bs_memory
             ELSE IF bs_db[atomz] = "nofile"
             THEN /\ bs_call' = [atomz |-> atomz, cartesian |-> cartesian,
                                 err |-> "RuntimeError", res |-> <<>>, hit |-> FALSE]
                  /\ UNCHANGED bs_memory
             ELSE LET res == ParseFile(atomz, bs_db[atomz], cartesian)
                  IN /\ bs_memory' = [bs_memory EXCEPT ![key] = <<res>>]
                     /\ bs_call' = [atomz |-> atomz, cartesian |-> cartesian,
                                    err |-> "none", res |-> <<res>>, hit |-> FALSE]
    /\ UNCHANGED bs_db
    /\ UNCHANGED <<rksvars, egvars, opvars, ivvars, cpvars, prvars>>

NextBasis == LoadBasis

----------------------------------------------------------------------------
(* OptimizationModule *)

OptMethodNames == {"lbfgs", "LBFGS", "sgd", "adam"}

\* str.lower() on the optimizer names the model passes
LowerOpt(m) == IF m = "LBFGS" THEN "lbfgs" ELSE m

\* optimize.py:79-85  "method" defaults to "lbfgs"
OptConfigMethod(opt) == IF opt = <<>> THEN "lbfgs" ELSE opt[1]

\* optimize.py:90-96  the optimizer class chosen; no branch handles another
\* name, so opt_cls and opt_kwds stay unbound
OptClass(m) ==
    CASE LowerOpt(m) = "lbfgs" -> "LBFGS"
      [] LowerOpt(m) = "sgd" -> "SGD"
      [] OTHER -> "unbound"

\* optimize.py:101-111  len(params): x plus, with optimize_model, the model's
\* optimizing_parameters() if it has that method and its parameters() otherwise
NParams(in) ==
    in.nx + (IF in.optimize_model
             THEN (IF in.has_optimizing THEN in.n_optimizing ELSE in.n_parameters)
             ELSE 0)

\* a check that never finds the parameter list empty
NoParams_Never(in) == FALSE

\* optimize.py:112-113  the test that the list of parameters to optimize is empty
NoParams(in) == NParams(in) = 0

\* optimize.py:137-139  _ForwardOpt.backward: returns None for every input,
\* whatever the incoming gradients
ForwardOptBackwardRaises(grad_x_nonzero) == FALSE

\* optimize.py:150-161  _BackwardOpt.backward: raises unless every incoming
\* gradient of xopt is zero
BackwardOptBackwardRaises(grad_x_nonzero) == grad_x_nonzero

\* optimize.py:59-69  forward goes through _ForwardOpt alone; the lines that
\* pass the result through _BackwardOpt are commented out
ModuleBackwardRaises(grad_x_nonzero) == ForwardOptBackwardRaises(grad_x_nonzero)

OptInputs ==
    [method : {<<>>} \cup {<<m>> : m \in OptMethodNames},
     nx : 0..MaxNx, optimize_model : BOOLEAN, has_optimizing : BOOLEAN,
     n_optimizing : 0..MaxModelParams, n_parameters : 0..MaxModelParams,
     max_niter : 0..MaxOptIter, training : BOOLEAN, return_arg : BOOLEAN]

OptRaise(e) ==
    /\ op_err' = e
    /\ op_pc' = "failed"

\* optimize.py:54-60, 77-115  OptimizationModule.forward enters
\* _ForwardOpt.forward: options, optimizer class, parameters, optimizer
OptForward ==
    /\ op_pc = "call"
    /\ IF OptClass(OptConfigMethod(op_in.method)) = "unbound"
       THEN \* line 98 reads opt_kwds
            /\ OptRaise("UnboundLocalError")
            /\ UNCHANGED op_opt
       ELSE IF NoParams(op_in)
       THEN /\ OptRaise("RuntimeError")
            /\ UNCHANGED op_opt
       ELSE /\ op_opt' = OptClass(OptConfigMethod(op_in.method))
            /\ op_pc' = "stepping"
            /\ UNCHANGED op_err
    /\ UNCHANGED <<op_in, op_steps, op_evals, op_bwd, op_x, rksvars, egvars, auxvars>>

\* x = [p.detach() for p in x0]: views of the caller's storage
SharesStorage_Detach == TRUE

\* optimize.py:101  x = [p.detach().clone().requires_grad_() for p in x0]:
\* whether the tensors the optimizer updates share storage with x0
SharesStorage == FALSE

\* optimize.py:116-125  one opt.step(closure): the optimizer updates x in
\* place
OptStep ==
    /\ op_pc = "stepping"
    /\ op_steps < op_in.max_niter
    /\ op_steps' = op_steps + 1
    /\ op_evals' = [op_evals EXCEPT !.closure = @ + 1]
    /\ op_x' = IF op_in.nx = 0 THEN op_x
               ELSE [x |-> op_x.x + 1,
                     x0 |-> IF SharesStorage THEN op_x.x0 + 1 ELSE op_x.x0]
    /\ UNCHANGED <<op_in, op_pc, op_opt, op_err, op_bwd, rksvars, egvars, auxvars>>

\* optimize.py:127-135  after the loop: gradients are reset (p.grad is None
\* for a model parameter when no closure has run), the model is evaluated at
\* the optimum and the result returned
OptFinish ==
    /\ op_pc = "stepping"
    /\ op_steps >= op_in.max_niter
    /\ IF op_in.n_parameters > 0 /\ op_steps = 0
       THEN /\ OptRaise("AttributeError")
            /\ UNCHANGED op_evals
       ELSE /\ op_evals' = [op_evals EXCEPT !.untracked = @ + 1, !.zopt = "untracked",
                                            !.zgraph = 0]
            /\ op_pc' = "evaluated"
            /\ UNCHANGED op_err
    /\ UNCHANGED <<op_in, op_opt, op_steps, op_bwd, op_x, rksvars, egvars, auxvars>>

\* a module that never evaluates the model again
Reevaluates_Never(in) == FALSE

\* optimize.py:63  whether forward evaluates the model again at (x*, y)
Reevaluates(in) == in.training

\* optimize.py:61-73  OptimizationModule.forward after _ForwardOpt.apply:
\* zopt is the value _ForwardOpt computed with autograd off, from detached
\* copies of y, unless the module evaluates the model again; the graph of
\* that evaluation ends at xopt, the outputs of _ForwardOpt
ModuleReturn ==
    /\ op_pc = "evaluated"
    /\ op_evals' = IF Reevaluates(op_in)
                   THEN [op_evals EXCEPT !.tracked = @ + 1, !.zopt = "tracked",
                                         !.zgraph = 1]
                   ELSE op_evals
    /\ op_pc' = "returned"
    /\ UNCHANGED <<op_in, op_opt, op_steps, op_err, op_bwd, op_x, rksvars, egvars, auxvars>>

\* the caller back-propagates through what forward returned: z*, and x*
\* when return_arg is set
OptBackward ==
    /\ op_pc = "returned"
    /\ op_in.training
    /\ \E g \in BOOLEAN :
          /\ g => (op_in.return_arg /\ op_in.nx > 0)
          /\ op_bwd' = [called |-> TRUE, grad_x_nonzero |-> g,
                        raised |-> ModuleBackwardRaises(g)]
          /\ IF ModuleBackwardRaises(g)
             THEN OptRaise("RuntimeError")
             ELSE op_pc' = "backward" /\ UNCHANGED op_err
    /\ UNCHANGED <<op_in, op_opt, op_steps, op_evals, op_x, rksvars, egvars, auxvars>>

NextOpt ==
    \/ OptForward
    \/ OptStep
    \/ OptFinish
    \/ ModuleReturn
    \/ OptBackward

----------------------------------------------------------------------------
(* Specifications *)

IdleSystem == [fock |-> [d \in DM |-> 0], diag |-> [o \in EigOpts |-> [s \in SCP |-> 0]]]

IdleEigIn ==
    [method |-> <<>>, na |-> 1, nc |-> 1, neig |-> 1, max_niter |-> 1, nguess |-> <<>>,
     v_init |-> <<>>, ev |-> <<0>>]

IdleParams == [n |-> 1, g |-> 0, grad |-> "None"]

IdleInitV ==
    /\ iv_rng = 0
    /\ iv_args = [vinit_type |-> "eye", nbatch |-> 1, na |-> 1, nguess |-> 1]
    /\ iv_first = <<>>
    /\ iv_last = <<>>
    /\ iv_calls = 0

\* hcgto_pbc.py:24-70  __init__ assigns none of grid, is_ao_set,
\* is_grad_ao_set, is_lapl_ao_set, basis, grad_basis, lapl_basis, and calls
\* no other constructor (grid 0: the attribute does not exist; basis 0: not
\* evaluated on any grid)
InitHam(df) ==
    [df |-> df, grid |-> 0, is_ao_set |-> "unset", is_grad_ao_set |-> "unset",
     is_lapl_ao_set |-> "unset", basis |-> 0, grad_basis |-> 0, lapl_basis |-> 0]

\* base_eks.py:8-11, 120-124  __init__: _grid = None (0), _hmodel = None, in
\* the first concrete functional of the tree and in every other node of it
InitEks(tree) ==
    [tree |-> tree, first |-> [grid |-> 0, hmodel |-> FALSE],
     rest |-> [grid |-> 0, hmodel |-> FALSE]]

IdlePrecond ==
    /\ pr_in = [dA |-> <<0>>, eigvalT |-> <<0>>, nadd |-> 1, eps_cond |-> 1]
    /\ pr_i = 0
    /\ pr_dA = <<0>>
    /\ pr_finv = <<>>
    /\ pr_f = <<>>
    /\ pr_err = "none"

\* cgto_basis.py:7-18  __init__: res_memory = {}
NoMemory == [k \in MemoKeys |-> <<>>]

NoBasisCall == [atomz |-> 0, cartesian |-> FALSE, err |-> "none", res |-> <<>>,
                hit |-> FALSE]

IdleBasis ==
    /\ bs_db = [z \in 1..MaxZ |-> "nofile"]
    /\ bs_memory = NoMemory
    /\ bs_call = NoBasisCall

IdleComp ==
    /\ cp_eks = InitEks([kind |-> "leaf", own |-> <<"p">>])
    /\ cp_ham = InitHam(TRUE)
    /\ cp_call = NoCpCall

IdleOpt ==
    /\ op_pc = "call"
    /\ op_opt = "none"
    /\ op_steps = 0
    /\ op_err = "none"
    /\ op_evals = [closure |-> 0, untracked |-> 0, tracked |-> 0, zopt |-> "none",
                   zgraph |-> 0]
    /\ op_bwd = [called |-> FALSE, grad_x_nonzero |-> FALSE, raised |-> FALSE]
    /\ op_x = [x |-> 0, x0 |-> 0]

IdleOptIn ==
    [method |-> <<>>, nx |-> 1, optimize_model |-> FALSE, has_optimizing |-> FALSE,
     n_optimizing |-> 0, n_parameters |-> 0, max_niter |-> 0, training |-> FALSE,
     return_arg |-> FALSE]

\* every system, one set of energy terms
InitRKS ==
    /\ system \in AllSystems
    /\ h_terms = UnitTerms
    /\ InitObject
    /\ eg_in = IdleEigIn /\ IdleEig /\ eg_params = IdleParams
    /\ op_in = IdleOptIn /\ IdleOpt
    /\ IdleInitV
    /\ IdleComp
    /\ IdlePrecond
    /\ IdleBasis

\* every set of energy terms, the plain systems
InitEnergy ==
    /\ system \in PlainSystems
    /\ h_terms \in TermSet
    /\ InitObject
    /\ eg_in = IdleEigIn /\ IdleEig /\ eg_params = IdleParams
    /\ op_in = IdleOptIn /\ IdleOpt
    /\ IdleInitV
    /\ IdleComp
    /\ IdlePrecond
    /\ IdleBasis

\* every call of eigendecomp.forward
InitEig ==
    /\ eg_in \in EigInputs
    /\ IdleEig /\ eg_params = IdleParams
    /\ system = IdleSystem /\ h_terms = UnitTerms /\ InitObject
    /\ op_in = IdleOptIn /\ IdleOpt
    /\ IdleInitV
    /\ IdleComp
    /\ IdlePrecond
    /\ IdleBasis

\* every configuration and call of OptimizationModule
InitOpt ==
    /\ op_in \in OptInputs
    /\ IdleOpt
    /\ IdleInitV
    /\ IdleComp
    /\ IdlePrecond
    /\ IdleBasis
    /\ system = IdleSystem /\ h_terms = UnitTerms /\ InitObject
    /\ eg_in = IdleEigIn /\ IdleEig /\ eg_params = IdleParams

\* every argument tuple of _set_initial_v, every state of the generator
InitInitV ==
    /\ iv_args \in InitVArgs
    /\ iv_rng \in RngStates
    /\ iv_first = <<>> /\ iv_last = <<>> /\ iv_calls = 0
    /\ IdleComp
    /\ IdlePrecond
    /\ IdleBasis
    /\ system = IdleSystem /\ h_terms = UnitTerms /\ InitObject
    /\ eg_in = IdleEigIn /\ IdleEig /\ eg_params = IdleParams
    /\ op_in = IdleOptIn /\ IdleOpt

\* forward calls that can be followed by backward passes
InitBwd ==
    /\ eg_in \in BwdInputs
    /\ eg_params \in BwdParams
    /\ IdleEig
    /\ system = IdleSystem /\ h_terms = UnitTerms /\ InitObject
    /\ op_in = IdleOptIn /\ IdleOpt
    /\ IdleInitV
    /\ IdleComp
    /\ IdlePrecond
    /\ IdleBasis

\* every functional and Hamiltonian as their constructors leave them
InitComp ==
    /\ cp_eks \in {InitEks(t) : t \in EKSTrees(MaxDepth)}
    /\ cp_ham \in {InitHam(df) : df \in BOOLEAN}
    /\ cp_call = NoCpCall
    /\ system = IdleSystem /\ h_terms = UnitTerms /\ InitObject
    /\ eg_in = IdleEigIn /\ IdleEig /\ eg_params = IdleParams
    /\ op_in = IdleOptIn /\ IdleOpt
    /\ IdleInitV
    /\ IdlePrecond
    /\ IdleBasis

\* every pass of the preconditioner
InitPrecond ==
    /\ pr_in \in PrecondInputs
    /\ pr_i = 0
    /\ pr_dA = pr_in.dA
    /\ pr_finv = <<>>
    /\ pr_f = <<>>
    /\ pr_err = "none"
    /\ system = IdleSystem /\ h_terms = UnitTerms /\ InitObject
    /\ eg_in = IdleEigIn /\ IdleEig /\ eg_params = IdleParams
    /\ op_in = IdleOptIn /\ IdleOpt
    /\ IdleInitV
    /\ IdleComp
    /\ IdleBasis

\* every database and a CGTOBasis object just constructed
InitBasis ==
    /\ bs_db \in [1..MaxZ -> FileContents]
    /\ bs_memory = NoMemory
    /\ bs_call = NoBasisCall
    /\ system = IdleSystem /\ h_terms = UnitTerms /\ InitObject
    /\ eg_in = IdleEigIn /\ IdleEig /\ eg_params = IdleParams
    /\ op_in = IdleOptIn /\ IdleOpt
    /\ IdleInitV
    /\ IdleComp
    /\ IdlePrecond

SpecRKS == InitRKS /\ [][NextRKS]_vars

SpecEnergy == InitEnergy /\ [][NextRKS]_vars

SpecEig == InitEig /\ [][NextEig]_vars

SpecOpt == InitOpt /\ [][NextOpt]_vars

SpecInitV == InitInitV /\ [][NextInitV]_vars

SpecBwd == InitBwd /\ [][NextEigBwd]_vars

SpecComp == InitComp /\ [][NextComp]_vars

SpecPrecond == InitPrecond /\ [][NextPrecond]_vars

SpecBasis == InitBasis /\ [][NextBasis]_vars

----------------------------------------------------------------------------
(* Claims *)

\* C1: on an RKS object on which no run() has completed, has_run is false
\* and energy() ends in an error; has_run is true only after a completed
\* run().
C1_HasRunOnlyAfterRun ==
    /\ has_run => nruns > 0
    /\ (nruns = 0 /\ call.name = "energy") => call.err # "none"

\* C2: a run() whose solver used up maxiter without meeting its tolerance
\* returns with a density matrix stored, and what the object exposes after
\* it differs from what it exposes after a converged run.
C2_FailureDistinguished ==
    /\ (rks_pc = "idle" /\ status = "maxiter") => has_dm
    /\ (rks_pc = "idle" /\ nruns >= 2 /\ prev_obs.status # status)
           => prev_obs.exposed # Exposed

\* C3: energy() returns the scalar
\* eivals_tot + (exc - e_vxc) - e_elrep + nuclei energy.
C3_EnergyFormula ==
    (call.name = "energy" /\ has_dm)
        => e_tot = Scalar(h_terms.eivals_tot + (h_terms.exc - h_terms.e_vxc)
                          - h_terms.e_elrep + h_terms.nuc)

\* C4: every run() starts from the Fock matrix of its own dm0 (the zero
\* matrix when dm0 is None) and uses its own eigen options; once it has
\* returned, the stored density matrix is the one of the state that run
\* returned, diagonalized with that run's eigen options, and aodm() and
\* energy() read exactly that density matrix and those options.
C4_RunsIndependent ==
    /\ (rks_pc = "solving" /\ iter = 0) => y = system.fock[EffDm0(arg_dm0)]
    /\ rks_pc = "solving" => eigen_options = EffEig(arg_eig)
    /\ (rks_pc = "idle" /\ nruns > 0)
           => /\ eigen_options = EffEig(arg_eig)
              /\ dm = system.diag[EffEig(arg_eig)][y]
    /\ (call.name \in {"aodm", "energy"} /\ nruns > 0)
           => /\ call.dm = system.diag[EffEig(arg_eig)][y]
              /\ call.eig = EffEig(arg_eig)

\* C4 witness: a second run with another dm0 and other eigen options has
\* returned another density matrix than the first, and energy() was called.
C4_Witness ==
    /\ nruns = 2
    /\ call.name = "energy"
    /\ prev_obs.exposed.has_dm
    /\ prev_obs.exposed.dm # dm
    /\ prev_obs.exposed.eigen_options # eigen_options

\* C5: a solver entered with a non-square operator has raised the shape
\* error with no application of the operator and no loop iteration.
C5_NonSquareRaisesFirst ==
    (eg_solver # "none" /\ eg_in.na # eg_in.nc)
        => /\ eg_pc = "done"
           /\ eg_err = "TypeError"
           /\ napply = 0
           /\ niter = 0
           /\ V_w = 0

\* C5 witness: davidson was entered with a non-square operator and raised.
C5_Witness ==
    /\ eg_solver = "davidson"
    /\ eg_in.na # eg_in.nc
    /\ eg_err = "TypeError"

\* C6: a method name that is none of davidson, lanczos, exacteig in any
\* letter case ends forward in the unknown-method error: no solver is
\* entered, nothing is applied, saved or returned; a name that is one of
\* them in any letter case enters that solver.
C6_UnknownMethodRaises ==
    eg_pc # "call"
        => LET m == IF eg_in.method = <<>> THEN "davidson" ELSE eg_in.method[1]
           IN /\ m \notin {"davidson", "Davidson", "lanczos", "LANCZOS", "exacteig",
                           "ExactEig"}
                    => /\ eg_pc = "done"
                       /\ eg_err = "RuntimeError: Unknown eigen decomposition method"
                       /\ eg_solver = "none"
                       /\ napply = 0
                       /\ niter = 0
                       /\ ~ctx_saved
                       /\ eg_ret = NoRet
              /\ m \in {"davidson", "Davidson"} => eg_solver = "davidson"
              /\ m \in {"lanczos", "LANCZOS"} => eg_solver = "lanczos"
              /\ m \in {"exacteig", "ExactEig"} => eg_solver = "exacteig"

\* C6 witness: forward was called with the name "power" and raised.
C6_Witness ==
    /\ eg_in.method = <<"power">>
    /\ eg_pc = "done"
    /\ eg_err = "RuntimeError: Unknown eigen decomposition method"

\* the exceptions the optimization engine raises with a raise statement
ExplicitErrors == {"RuntimeError"}

\* C7: an optimizer name that is neither lbfgs nor sgd ends the call in an
\* explicitly raised error, with no optimizer constructed and no step made.
C7_UnknownOptimizerRaises ==
    (op_pc # "call" /\ op_in.method \in {<<"adam">>})
        => /\ op_err \in ExplicitErrors
           /\ op_opt = "none"
           /\ op_steps = 0

\* C8: a backward pass whose incoming gradient of x* is not all zero raises.
C8_ArgminGradientRaises ==
    (op_bwd.called /\ op_bwd.grad_x_nonzero) => op_bwd.raised

\* C9: with no parameter to optimize the call fails with no optimizer
\* constructed and no step made.
C9_NoParamsRaises ==
    (/\ op_pc # "call"
     /\ op_in.nx = 0
     /\ \/ ~op_in.optimize_model
        \/ (op_in.has_optimizing /\ op_in.n_optimizing = 0)
        \/ (~op_in.has_optimizing /\ op_in.n_parameters = 0))
        => /\ op_pc = "failed"
           /\ op_err # "none"
           /\ op_opt = "none"
           /\ op_steps = 0

\* C9 witness: a known optimizer name, no parameter, the explicit error.
C9_Witness ==
    /\ op_in.method = <<"sgd">>
    /\ op_in.nx = 0
    /\ op_in.optimize_model
    /\ ~op_in.has_optimizing
    /\ op_in.n_parameters = 0
    /\ op_err = "RuntimeError"

\* C10: every solver called on a square operator with 1 <= neig <= na,
\* max_niter >= 1 and a known v_init returns neig eigenvalues and neig
\* eigenvectors of length na.
C10_ReturnsNeigPairs ==
    (/\ eg_pc = "done"
     /\ eg_solver # "none"
     /\ eg_in.na = eg_in.nc
     /\ eg_in.v_init \in {<<>>, <<"eye">>, <<"randn">>, <<"rand">>})
        => /\ eg_err = "none"
           /\ Len(eg_ret.evals) = eg_in.neig
           /\ eg_ret.nvecs = eg_in.neig
           /\ eg_ret.veclen = eg_in.na

\* C11: the eigenvalues a solver returns are in ascending order, and they
\* are the first neig (all, when there are fewer) of the ascending values
\* that the solver computed in the last iteration it entered.
C11_AscendingLowest ==
    (eg_pc = "done" /\ eg_err = "none" /\ eg_solver # "none")
        => /\ \A j \in 1..(Len(eg_ret.evals) - 1) : eg_ret.evals[j] <= eg_ret.evals[j + 1]
           /\ \A j \in 1..(Len(eigvalT) - 1) : eigvalT[j] <= eigvalT[j + 1]
           /\ eg_at = niter
           /\ Len(eg_ret.evals) = Min(eg_in.neig, Len(eigvalT))
           /\ \A j \in 1..Len(eg_ret.evals) : eg_ret.evals[j] = eigvalT[j]

\* C11 witness: lanczos returned, after two iterations or more, fewer
\* values than its last iteration computed, and these differ.
C11_Witness ==
    /\ eg_solver = "lanczos"
    /\ eg_pc = "done"
    /\ eg_err = "none"
    /\ niter >= 2
    /\ Len(eg_ret.evals) < Len(eigvalT)
    /\ eigvalT[1] # eigvalT[Len(eigvalT)]

\* C12: the eigenvalues that lanczos and davidson return are, within the
\* tolerance min_eps, the lowest ones of the operator's spectrum, which is
\* what exacteig returns for the same operator and neig (stated for the
\* default initial subspace and the default nguess).
C12_AgreesWithExact ==
    (/\ eg_pc = "done"
     /\ eg_err = "none"
     /\ eg_solver \in {"lanczos", "davidson"}
     /\ eg_in.v_init = <<>>
     /\ eg_in.nguess = <<>>)
        => \A j \in 1..Len(eg_ret.evals) : Abs(eg_ret.evals[j] - eg_in.ev[j]) < min_eps

\* C13: every call of _set_initial_v with the same arguments returns the
\* same thing as the first one did, whatever the generator state at entry.
C13_InitialSubspaceDeterministic ==
    iv_calls >= 1
        => /\ iv_last[1].err = iv_first[1].err
           /\ iv_last[1].V = iv_first[1].V

\* C13 witness: two calls with a random strategy, entered with different
\* generator states, neither of them the freshly seeded one.
C13_Witness ==
    /\ iv_calls = 2
    /\ iv_args.vinit_type = "randn"
    /\ iv_first[1].entry # iv_last[1].entry
    /\ iv_first[1].entry.seed = 0
    /\ iv_last[1].entry # ManualSeed(iv_last[1].entry)
    /\ iv_last[1].V.from # <<>>

\* C14: a backward pass applies the operator once to the saved
\* eigenvectors and differentiates that one application; the eigenpairs
\* saved by an iterative solver's forward carry no record of the operator
\* applications of its iterations.
C14_BackwardFromEigenpairsOnly ==
    (bw.calls > 0 /\ eg_solver \in {"lanczos", "davidson"})
        => /\ ctx_graph.ops = 0
           /\ bw.reapplied = bw.calls
           /\ bw.traversed = 1

\* C15: every backward invocation after a forward pass succeeds and returns
\* what the first one returned: three None and one gradient per entry of
\* params; the saved eigenpairs are still the ones forward computed and the
\* .grad fields of params are untouched.
C15_BackwardRepeatable ==
    bw.calls >= 1
        => /\ bw.err = "none"
           /\ bw.last = bw.first
           /\ bw.last[1].nones = 3
           /\ DOMAIN bw.last[1].grads = 1..eg_params.n
           /\ ctx_graph.evals = eg_ret.evals
           /\ ctx_graph.nvecs = eg_ret.nvecs
           /\ eg_params.grad = "None"

\* C15 witness: two backward passes with a non-zero incoming gradient
\* after a lanczos forward pass of two iterations or more, two params.
C15_Witness ==
    /\ bw.calls = 2
    /\ eg_solver = "lanczos"
    /\ niter >= 2
    /\ eg_params.n = 2
    /\ eg_params.g = 1

\* C16 as stated: in every mode the z* that forward returns is the value
\* of the one evaluation made under gradient tracking after the optimizer
\* has finished, and its graph holds that evaluation only.
C16_TrackedInEveryMode ==
    op_pc \in {"returned", "backward"}
        => /\ op_evals.zopt = "tracked"
           /\ op_evals.tracked = 1
           /\ op_evals.zgraph = 1

\* C16 amended: in training mode the z* that forward returns is the value
\* of the one evaluation made under gradient tracking after the optimizer
\* has finished, and its graph holds that evaluation only; otherwise z* is
\* the value of the untracked evaluation and its graph holds none.
C16_TrackedWhenTraining ==
    op_pc \in {"returned", "backward"}
        => /\ op_evals.untracked = 1
           /\ op_evals.closure = op_steps
           /\ op_steps = op_in.max_niter
           /\ IF op_in.training
              THEN /\ op_evals.zopt = "tracked"
                   /\ op_evals.tracked = 1
                   /\ op_evals.zgraph = 1
              ELSE /\ op_evals.zopt = "untracked"
                   /\ op_evals.tracked = 0
                   /\ op_evals.zgraph = 0

\* C16 witness: a module in training mode has returned after two steps.
C16_Witness ==
    /\ op_pc = "returned"
    /\ op_in.training
    /\ op_steps = 2
    /\ op_evals.zopt = "tracked"

\* C17: after a run() that ended converged, one more application of
\* scp -> density matrix -> scp to the returned scp, with the eigen options
\* of that run, changes it by less than the tolerance of that run.
C17_ConvergedIsFixedPoint ==
    (rks_pc = "idle" /\ status = "converged")
        => Abs(system.fock[system.diag[eigen_options][y]] - y) < f_tol

\* C17 witness: a run that took the custom eigen options has ended
\* converged in a state that the map still moves, by less than the tolerance.
C17_Witness ==
    /\ rks_pc = "idle"
    /\ status = "converged"
    /\ eigen_options = "custom"
    /\ f_tol = 2
    /\ system.fock[system.diag[eigen_options][y]] # y

\* the method names BaseEKS.getparamnames has a branch for
EksKnown == {"forward", "__call__", "potential", "potential_linop"}

\* the method names HamiltonCGTO_PBC.getparamnames has a branch for
HamKnown ==
    {"get_kinnucl", "get_nuclattr", "get_overlap", "get_elrep", "ao_orb2dm",
     "get_vext", "get_grad_vext", "get_lapl_vext", "get_vxc", "_get_dens_at_grid",
     "_get_grad_dens_at_grid", "_get_lapl_dens_at_grid"}

BeginsWith(name, prefix) ==
    /\ Len(name) > Len(prefix)
    /\ SubSeq(name, 1, Len(prefix)) = prefix

C19_SetupErrorsAreRuntimeErrors ==
    /\ (cp_call.name = "grid" /\ ~cp_call.grid) =>
          cp_call.err = "RuntimeError" /\ ~cp_call.returned
    /\ (cp_call.name \in {"hmodel", "potential_linop"} /\ ~cp_call.hmodel) =>
          cp_call.err = "RuntimeError" /\ ~cp_call.returned
    /\ (cp_call.name \in {"get_vext", "get_grad_vext"} /\ ~cp_call.setup) =>
          cp_call.err = "RuntimeError" /\ ~cp_call.returned

\* test_ks.py:17-27, 36-42  the reference energy of the test: the total
\* energy of the converged state computed independently of energy()
EnergyTrue ==
    h_terms.eivals_tot + (h_terms.exc - h_terms.e_vxc) - h_terms.e_elrep + h_terms.nuc

\* test_ks.py:68  torch.allclose(ene, ene * 0 + energy_true): the result has
\* to be a tensor, and on the integer values of the model closeness is equality
AllClose(ene, energy_true) == ene.kind = "scalar" /\ ene.v = energy_true

\* C20: run() that converged followed by energy() yields a total energy that
\* agrees with the reference value of the system.
C20_EnergyMatchesReference ==
    (call.name = "energy" /\ has_run /\ has_dm /\ status = "converged")
        => call.err = "none" /\ AllClose(e_tot, EnergyTrue)

\* C22: a Lanczos call that passes its configuration checks ends without
\* an exception, either because the lowest Ritz values moved by less than
\* min_eps (stop_reason "min_eps") or because max_niter iterations were
\* performed (stop_reason "max_niter"); and while the loop runs, the basis
\* has one column more than the iterations completed.
C22_LanczosTerminatesForTwoReasons ==
    (/\ eg_solver = "lanczos"
     /\ ShapeOk(eg_in.na, eg_in.nc)
     /\ VInitKnown(Lower(VInit(eg_in))))
        => /\ eg_pc = "done" =>
                /\ eg_err = "none"
                /\ stop_reason \in {"min_eps", "max_niter"}
                /\ stop_reason = "min_eps" =>
                      Dev(Slice(eigvalT, eg_in.neig), prev_eigvals) < min_eps
                /\ stop_reason = "max_niter" => niter = eg_in.max_niter
           /\ eg_pc = "lanczos" => V_w = 1 + eg_i

C24_SubspaceAtMostN ==
    (eg_solver = "davidson" /\ eg_pc = "davidson" /\ eg_i < eg_in.max_niter)
        => V_w <= eg_in.na

\* C25: after a pass of the preconditioner, every denominator
\* dA[j] - lambda_i whose magnitude was below eps_cond has magnitude eps_cond,
\* every other one is dA[j] - lambda_i itself, the division has seen no
\* magnitude below eps_cond and raised nothing, and dA is what it was.
C25_DenominatorsClamped ==
    pr_i > 0 =>
        /\ Len(pr_finv) = Len(pr_in.dA)
        /\ \A j \in 1..Len(pr_finv) :
              LET d == pr_in.dA[j] - pr_in.eigvalT[pr_i]
              IN /\ Abs(d) < pr_in.eps_cond => Abs(pr_finv[j]) = pr_in.eps_cond
                 /\ Abs(d) >= pr_in.eps_cond => pr_finv[j] = d
                 /\ Abs(pr_f[j].den) >= pr_in.eps_cond
        /\ pr_err = "none"
        /\ pr_dA = pr_in.dA

\* a pass in which one denominator was zero and another one was large enough
C25_Witness ==
    /\ pr_i > 0
    /\ pr_in.eps_cond > 0
    /\ \E j, k \in 1..Len(pr_finv) :
          /\ pr_in.dA[j] = pr_in.eigvalT[pr_i]
          /\ pr_finv[j] = pr_in.eps_cond
          /\ Abs(pr_in.dA[k] - pr_in.eigvalT[pr_i]) > pr_in.eps_cond
          /\ pr_finv[k] = pr_in.dA[k] - pr_in.eigvalT[pr_i]

\* C26: the state of the process-wide random generator at the end of a
\* solver's call of _set_initial_v (the only place where Lanczos and
\* Davidson touch the generator) is the state it had when the call began.
C26_GeneratorStateRestored ==
    iv_calls > 0 => iv_last[1].exit = iv_last[1].entry

\* C27: a loadbasis call whose file exists returns what an uncached parse
\* of the file of its atomz with its cartesian flag returns; a call whose
\* file is missing raises RuntimeError; and the memo holds entries only for
\* atomz whose file exists.
C27_MemoReturnsUncachedParse ==
    /\ bs_call.atomz # 0 =>
          IF bs_db[bs_call.atomz] = "nofile"
          THEN bs_call.err = "RuntimeError" /\ bs_call.res = <<>>
          ELSE /\ bs_call.err = "none"
               /\ bs_call.res = <<ParseFile(bs_call.atomz, bs_db[bs_call.atomz],
                                            bs_call.cartesian)>>
    /\ \A k \in MemoKeys : bs_memory[k] # <<>> => bs_db[k[1]] # "nofile"

\* C28: is_grad_ao_set (is_lapl_ao_set) is true only if the gradient
\* (Laplacian) basis was evaluated on the grid of the most recent setup_grid
\* call, which is also the grid of the basis it is combined with.
C28_FlagsGuardCurrentGrid ==
    /\ cp_ham.is_grad_ao_set = "True" =>
          cp_ham.grad_basis = cp_ham.grid /\ cp_ham.grad_basis = cp_ham.basis
    /\ cp_ham.is_lapl_ao_set = "True" =>
          cp_ham.lapl_basis = cp_ham.grid /\ cp_ham.lapl_basis = cp_ham.basis

\* C29: whenever an hmodel is set in a functional, in the sum itself as in
\* its operands, the grid it holds is the grid of that hmodel.
C29_GridIsHmodelGrid ==
    /\ cp_eks.first.hmodel => cp_eks.first.grid = cp_ham.grid
    /\ (cp_eks.tree.kind = "add" /\ cp_eks.rest.hmodel) => cp_eks.rest.grid = cp_ham.grid

\* C30: a call that passed its configuration checks leaves the loop after
\* exactly max_niter optimizer steps, each with one closure evaluation and
\* none skipped for a tolerance, and the caller's x0 has received none of the
\* updates the optimizer made to its own copies.
C30_ExactlyMaxNiterSteps ==
    /\ op_pc = "stepping" => op_steps <= op_in.max_niter
    /\ (op_opt # "none" /\ op_pc # "stepping") =>
          /\ op_steps = op_in.max_niter
          /\ op_evals.closure = op_in.max_niter
    /\ op_x.x0 = 0
    /\ op_in.nx > 0 => op_x.x = op_steps

\* a call with tensors to optimize has made all of its max_niter > 0 steps
\* and returned
C30_Witness ==
    /\ op_pc = "returned"
    /\ op_in.nx > 0
    /\ op_in.max_niter = MaxOptIter
    /\ op_steps = MaxOptIter
    /\ op_x.x = MaxOptIter

\* test_ks.py:84-94  gradcheck and gradgradcheck call get_energy, which has
\* to return a tensor before a derivative of it can be taken or differenced
Differentiable(ene) == ene.kind = "scalar"

\* C21: the energy that run() and energy() return for a converged run can
\* be differentiated and differenced at all, which the equality of its
\* reverse-mode derivative and its finite-difference derivative requires:
\* energy() raises nothing and returns a tensor.
C21_EnergyIsDifferentiable ==
    (call.name = "energy" /\ nruns > 0 /\ status = "converged")
        => call.err = "none" /\ Differentiable(e_tot)

====
